---- MODULE Spec2Model ----
(***************************************************************************)
(* BloomTracker phenology analytics: the time-series normaliser            *)
(* (utils/helpers.py interpolate_missing_values), the bloom onset detector *)
(* (app.py detect_bloom_from_ndvi, services/nasa_api.py detect_bloom_real),*)
(* the mean/std bloom predictor (app.py predict_bloom_window), the         *)
(* phenology metrics (app.py calculate_phenology), the grid scan           *)
(* (app.py get_bloom_map, utils/helpers.py generate_grid_points), the      *)
(* bloom detection endpoint and date-range validation (app.py              *)
(* detect_bloom, utils/helpers.py parse_date_range), the outlier detector  *)
(* (utils/helpers.py detect_outliers), the region store                    *)
(* (models/database.py Region, InMemoryStore) and the historical anomaly   *)
(* detector, which is modelled from its specification.                     *)
(*                                                                         *)
(* Representation.  A date string 'YYYY-MM-DD' is a day ordinal (days      *)
(* since 1 January of EpochYear); zero-padded ISO strings order exactly as *)
(* their ordinals do.  An NDVI value is an exact number of 1/NdviScale     *)
(* units; values produced by interpolation are exact rationals             *)
(* [num, den] in lowest terms.  A grid coordinate is a whole number of     *)
(* its request's unit.  Floating-point rounding is modelled where it       *)
(* changes the shape of a result (the length of np.arange), not in the     *)
(* NDVI arithmetic.                                                        *)
(***************************************************************************)
EXTENDS Integers, Sequences, FiniteSets

VARIABLES op, input, result, now_year, data_store

vars == <<op, input, result, now_year, data_store>>

\* ---------------------------------------------------------------- bounds
MaxLen == 3          \* raw samples handed to the normaliser
MaxDate == 58        \* latest day ordinal of a raw sample
MaxSeriesLen == 5    \* samples handed to the onset detector
MaxHist == 3         \* historical bloom records handed to the predictor
MaxLat == 12         \* largest max_lat of a grid request, in grid units
MaxLon == 3          \* largest max_lon of a grid request, in grid units
MaxEvents == 2       \* bloom events added to the store, or to one region directly
MaxValues == 7       \* values handed to the outlier detector

NdviScale == 100     \* NDVI 1.0 in model units

\* ------------------------------------------------------------- arithmetic
Abs(x) == IF x < 0 THEN -x ELSE x

Min(a, b) == IF a <= b THEN a ELSE b

RECURSIVE GCD(_, _)
GCD(a, b) == IF b = 0 THEN a ELSE GCD(b, a % b)

\* an exact rational in lowest terms with a positive denominator
Rat(n, d) ==
    LET g == GCD(Abs(n), d)
    IN  [num |-> n \div g, den |-> d \div g]

RatAdd(x, y) == Rat(x.num * y.den + y.num * x.den, x.den * y.den)
RatSub(x, y) == Rat(x.num * y.den - y.num * x.den, x.den * y.den)
RatMul(x, y) == Rat(x.num * y.num, x.den * y.den)
RatLeq(x, y) == x.num * y.den <= y.num * x.den

RECURSIVE SumSeq(_)
SumSeq(s) == IF s = <<>> THEN 0 ELSE Head(s) + SumSeq(Tail(s))

SumSq(s) == SumSeq([i \in 1..Len(s) |-> s[i] * s[i]])

RECURSIVE Flatten(_)
Flatten(ss) == IF ss = <<>> THEN <<>> ELSE Head(ss) \o Flatten(Tail(ss))

\* ------------------------------------------------- TimeSeries normaliser
\* sorted(timeseries, key=lambda x: x['date']): Python's sort is stable
InsertByDate(s, x) ==
    LET p == Cardinality({i \in 1..Len(s) : s[i].date <= x.date})
    IN  SubSeq(s, 1, p) \o <<x>> \o SubSeq(s, p + 1, Len(s))

RECURSIVE SortPrefix(_, _)
SortPrefix(ts, k) ==
    IF k = 0 THEN <<>> ELSE InsertByDate(SortPrefix(ts, k - 1), ts[k])

sorted_ts(timeseries) == SortPrefix(timeseries, Len(timeseries))

\* if gap_days > 16
gap_too_large(gap_days) == gap_days > 16

num_points_mut(gap_days) == gap_days \div 16

\* num_points = gap_days // 8
num_points(gap_days) == gap_days \div 8

interp_date_mut(current_date, j) == current_date + 4 * j

\* interp_date = current_date + timedelta(days=8 * j)
interp_date(current_date, j) == current_date + 8 * j

\* interp_val = current_val + (next_val - current_val) * (j / num_points)
interp_val(current_val, next_val, j, n) ==
    RatAdd(current_val, RatMul(RatSub(next_val, current_val), Rat(j, n)))

\* the samples appended after item when the next sample is far away
interpolated_after(item, next) ==
    LET gap_days == next.date - item.date
        n == num_points(gap_days)
    IN  IF gap_too_large(gap_days)
        THEN [j \in 1..(n - 1) |->
                [date |-> interp_date(item.date, j),
                 ndvi |-> interp_val(item.ndvi, next.ndvi, j, n),
                 interpolated |-> TRUE]]
        ELSE <<>>

interpolate_missing_values(timeseries) ==
    IF timeseries = <<>> THEN <<>>
    ELSE LET s == sorted_ts(timeseries)
         IN  Flatten([i \in 1..Len(s) |->
                 IF i < Len(s)
                 THEN <<s[i]>> \o interpolated_after(s[i], s[i + 1])
                 ELSE <<s[i]>>])

\* --------------------------------------------------- bloom onset detector
\* Python's None
None == [none |-> TRUE]

\* np.diff(ndvi_values): derivatives[k] = ndvi_values[k+1] - ndvi_values[k]
np_diff(v) == [k \in 1..(Len(v) - 1) |-> v[k + 1] - v[k]]

exceeds_threshold_mut(d, derivatives) ==
    LET n == Len(derivatives)
        V == n * SumSq(derivatives) - SumSeq(derivatives) * SumSeq(derivatives)
    IN  d >= 0 /\ 4 * d * d * n * n >= 9 * V

\* d > np.std(derivatives) * 1.5, with the population standard deviation
\* sqrt(V) / n, V = n * sum(d^2) - (sum d)^2, compared exactly
exceeds_threshold(d, derivatives) ==
    LET n == Len(derivatives)
        V == n * SumSq(derivatives) - SumSeq(derivatives) * SumSeq(derivatives)
    IN  d > 0 /\ 4 * d * d * n * n > 9 * V

\* np.where(derivatives > threshold)[0]
bloom_indices(derivatives) ==
    {k \in 1..Len(derivatives) : exceeds_threshold(derivatives[k], derivatives)}

SetMin(S) == CHOOSE x \in S : \A y \in S : x <= y

py_max(v) == CHOOSE x \in {v[i] : i \in 1..Len(v)} : \A i \in 1..Len(v) : v[i] <= x

np_argmax_mut(v) ==
    SetMin({i \in 1..Len(v) : \A j \in 1..Len(v) : v[i] <= v[j]})

\* np.argmax(ndvi_values): the first position of the maximum
np_argmax(v) == SetMin({i \in 1..Len(v) : v[i] = py_max(v)})

confidence_mut(d) == d * 10

\* float(min(derivatives[bloom_idx] * 10, 1.0))
confidence(d) == Min(d * 10, NdviScale)

\* the 'bloom_event' dictionary; bloom_idx is a position of derivatives,
\* so dates[bloom_idx] is the sample the difference starts from
bloom_event(timeseries, bloom_idx) ==
    LET ndvi_values == [i \in 1..Len(timeseries) |-> timeseries[i].ndvi]
        dates == [i \in 1..Len(timeseries) |-> timeseries[i].date]
        derivatives == np_diff(ndvi_values)
    IN  [bloom_onset_date |-> dates[bloom_idx],
         bloom_onset_ndvi |-> ndvi_values[bloom_idx],
         peak_date |-> dates[np_argmax(ndvi_values)],
         peak_ndvi |-> py_max(ndvi_values),
         confidence |-> confidence(derivatives[bloom_idx])]

detect_bloom_from_ndvi(timeseries) ==
    IF Len(timeseries) < 3 THEN None
    ELSE LET derivatives == np_diff([i \in 1..Len(timeseries) |-> timeseries[i].ndvi])
             idx == bloom_indices(derivatives)
         IN  IF idx # {} THEN bloom_event(timeseries, SetMin(idx))
             ELSE None

\* RealNASAEarthDataService.detect_bloom_real, from the fetched veg_data on
detect_bloom_real(veg_data) ==
    IF ~veg_data.success
    THEN [success |-> FALSE, error |-> "Could not fetch vegetation data"]
    ELSE LET timeseries == veg_data.data IN
         IF Len(timeseries) < 3
         THEN [bloom_detected |-> FALSE, message |-> "Insufficient data points"]
         ELSE LET derivatives == np_diff([i \in 1..Len(timeseries) |-> timeseries[i].ndvi])
                  idx == bloom_indices(derivatives)
              IN  IF idx # {}
                  THEN [success |-> TRUE, bloom_detected |-> TRUE,
                        bloom_event |-> bloom_event(timeseries, SetMin(idx))]
                  ELSE [success |-> TRUE, bloom_detected |-> FALSE,
                        message |-> "No significant bloom event detected in this period"]

\* ------------------------------------------------------ calendar dates
\* the calendar year of the wall clock: a common year and a leap year
NowYears == {2023, 2024}

\* day ordinal 0 is 1 January of the year before the earliest clock year
EpochYear == SetMin(NowYears) - 1

IsLeap(y) == (y % 4 = 0 /\ y % 100 # 0) \/ y % 400 = 0

DaysInYear(y) == IF IsLeap(y) THEN 366 ELSE 365

\* datetime(y, 1, 1) as a day ordinal
RECURSIVE YearStart(_)
YearStart(y) == IF y <= EpochYear THEN 0 ELSE YearStart(y - 1) + DaysInYear(y - 1)

\* the year and the day of the year of the date a day ordinal formats to
RECURSIVE YearFrom(_, _)
YearFrom(ord, y) ==
    IF ord < DaysInYear(y) THEN y ELSE YearFrom(ord - DaysInYear(y), y + 1)

YearOf(ord) == YearFrom(ord, EpochYear)

DayOfYear(ord) == ord - YearStart(YearOf(ord)) + 1

\* --------------------------------------------------- bloom prediction model
\* int(np.mean(bloom_days)): the mean cut to an integer
int_mean(bloom_days) == SumSeq(bloom_days) \div Len(bloom_days)

\* int(np.std(bloom_days)): the population standard deviation cut to an
\* integer, the largest s with (s * n)^2 <= n * sum(x^2) - (sum x)^2
int_std(bloom_days) ==
    LET n == Len(bloom_days)
        V == n * SumSq(bloom_days) - SumSeq(bloom_days) * SumSeq(bloom_days)
    IN  CHOOSE s \in 0..366 :
            /\ s * s * n * n <= V
            /\ (s + 1) * (s + 1) * n * n > V

confidence_level_mut(std_bloom_day) ==
    IF std_bloom_day <= 7 THEN "high"
    ELSE IF std_bloom_day <= 14 THEN "medium" ELSE "low"

\* 'high' if std_bloom_day < 7 else 'medium' if std_bloom_day < 14 else 'low'
confidence_level(std_bloom_day) ==
    IF std_bloom_day < 7 THEN "high"
    ELSE IF std_bloom_day < 14 THEN "medium" ELSE "low"

\* predicted_date - timedelta(days=std_bloom_day)
window_start(predicted_date, std_bloom_day) == predicted_date - std_bloom_day

window_end_mut(predicted_date, std_bloom_day) == predicted_date - std_bloom_day

\* predicted_date + timedelta(days=std_bloom_day)
window_end(predicted_date, std_bloom_day) == predicted_date + std_bloom_day

\* predict_bloom_window; lat and lon are not read, current_year is
\* datetime.now().year
predict_bloom_window(historical_blooms, current_year) ==
    IF historical_blooms = <<>> \/ Len(historical_blooms) < 2 THEN None
    ELSE LET bloom_days == [i \in 1..Len(historical_blooms) |->
                               historical_blooms[i].day_of_year]
             avg_bloom_day == int_mean(bloom_days)
             std_bloom_day == IF Len(bloom_days) > 1 THEN int_std(bloom_days) ELSE 7
             predicted_date == YearStart(current_year) + (avg_bloom_day - 1)
         IN  [predicted_date |-> predicted_date,
              confidence |-> confidence_level(std_bloom_day),
              window_start |-> window_start(predicted_date, std_bloom_day),
              window_end |-> window_end(predicted_date, std_bloom_day),
              variability_days |-> std_bloom_day]

\* ---------------------------------------------- phenology metrics
PhenologyThreshold == 40     \* the 0.4 of greenup and senescence

\* v > 0.4
above_threshold(v) == v > PhenologyThreshold

below_threshold_mut(v) == v <= PhenologyThreshold

\* ndvi_values[i] < 0.4
below_threshold(v) == v < PhenologyThreshold

\* next((i for i, v in enumerate(ndvi_values) if v > 0.4), 0)
greenup_idx(ndvi_values) ==
    LET hits == {i \in 1..Len(ndvi_values) : above_threshold(ndvi_values[i])}
    IN  IF hits # {} THEN SetMin(hits) ELSE 1

senescence_from_mut(max_idx) == 1

\* range(max_idx, len(ndvi_values)): the search starts at the peak
senescence_from(max_idx) == max_idx

\* next((i for i in range(max_idx, len(ndvi_values))
\*       if ndvi_values[i] < 0.4), len(ndvi_values) - 1)
senescence_idx(ndvi_values, max_idx) ==
    LET hits == {i \in senescence_from(max_idx)..Len(ndvi_values) :
                    below_threshold(ndvi_values[i])}
    IN  IF hits # {} THEN SetMin(hits) ELSE Len(ndvi_values)

\* the 'metrics' of calculate_phenology for the year's time series
calculate_phenology(timeseries) ==
    LET ndvi_values == [i \in 1..Len(timeseries) |-> timeseries[i].ndvi]
        max_idx == np_argmax(ndvi_values)
        green == greenup_idx(ndvi_values)
        senescence == senescence_idx(ndvi_values, max_idx)
    IN  [greenup_date |-> timeseries[green].date,
         peak_date |-> timeseries[max_idx].date,
         senescence_date |-> timeseries[senescence].date,
         max_ndvi |-> py_max(ndvi_values),
         growing_season_length_days |-> (senescence - green) * 8]

\* ------------------------------------------------ regional grid
\* A grid coordinate is a whole number of the request's unit: a tenth of a
\* degree ("tenth": 4 is 0.4) or 1e300 degrees ("huge": 2 is 2e300).  The
\* bloom-map endpoint does not range-check its coordinates.
GridUnits == {"tenth", "huge"}

\* np.arange's length is ceil((stop - start) / step) on doubles.  These are
\* the (start, stop, step) in tenths, start <= 1, stop <= 15, step 1 or 3,
\* whose double quotient lands just above the exact whole quotient, e.g.
\* (0.4 - 0.1) / 0.1 = 3.0000000000000004; multiples of 1e300 in this range
\* divide exactly.
DoubleQuotientRoundsUp == {<<1, 4, 1>>, <<1, 4, 3>>}

\* len(np.arange(start, stop, step))
np_arange_len(start, stop, step, unit) ==
    IF stop <= start THEN 0
    ELSE LET exact == (stop - start + step - 1) \div step
         IN  IF unit = "tenth" /\ <<start, stop, step>> \in DoubleQuotientRoundsUp
             THEN exact + 1
             ELSE exact

\* np.arange(start, stop, step)
np_arange(start, stop, step, unit) ==
    [k \in 1..np_arange_len(start, stop, step, unit) |-> start + (k - 1) * step]

\* utils/helpers.py generate_grid_points: lat-major list of (lat, lon)
generate_grid_points(req) ==
    LET lats == np_arange(req.min_lat, req.max_lat, req.resolution, req.unit)
        lons == np_arange(req.min_lon, req.max_lon, req.resolution, req.unit)
    IN  Flatten([i \in 1..Len(lats) |-> [j \in 1..Len(lons) |-> <<lats[i], lons[j]>>]])

GridCap == 10

\* lats[:10], lons[:10]
first_ten(v) == SubSeq(v, 1, Min(Len(v), GridCap))

BLOOM_THRESHOLD_NDVI == 60

VegetatedThreshold == 30

\* avg_ndvi > threshold, for avg_ndvi = total / n
mean_above(total, n, threshold) == total > threshold * n

cell_status_mut(total, n) ==
    IF total >= BLOOM_THRESHOLD_NDVI * n THEN "blooming"
    ELSE IF total >= VegetatedThreshold * n THEN "vegetated" ELSE "dormant"

\* 'blooming' if avg_ndvi > BLOOM_THRESHOLD_NDVI else 'vegetated'
\* if avg_ndvi > 0.3 else 'dormant'
cell_status(total, n) ==
    IF mean_above(total, n, BLOOM_THRESHOLD_NDVI) THEN "blooming"
    ELSE IF mean_above(total, n, VegetatedThreshold) THEN "vegetated" ELSE "dormant"

\* round(float(avg_ndvi), 3), in thousandths
round3(total, n) == (20 * total + n) \div (2 * n)

\* generate_mock_ndvi_data raises OverflowError on a latitude so large that
\* -((doy - base_doy) ** 2) / (2 * 30 ** 2) does not fit a float
mock_raises(lat, unit) == unit = "huge" /\ lat # 0

\* the three-sample window (16 days back, 8 days back, today) the mock
\* generator draws for the cell at position (i, j) of the grid
recent_data(field, i, j) == field[((i + j) % 2) + 1]

\* the bloom_data entries one grid point contributes
bloom_cells(lat, lon, window) ==
    IF window # <<>>
    THEN <<[lat |-> lat, lon |-> lon,
            ndvi |-> round3(SumSeq(window), Len(window)),
            status |-> cell_status(SumSeq(window), Len(window))]>>
    ELSE <<>>

\* the bloom-map endpoint: the JSON answer, or the 400 answer of the
\* handler's except clause
get_bloom_map(req, field) ==
    LET lats == first_ten(np_arange(req.min_lat, req.max_lat, req.resolution, req.unit))
        lons == first_ten(np_arange(req.min_lon, req.max_lon, req.resolution, req.unit))
    IN  IF \E i \in 1..Len(lats) : Len(lons) > 0 /\ mock_raises(lats[i], req.unit)
        THEN [error |-> "OverflowError"]
        ELSE LET bloom_data ==
                     Flatten([i \in 1..Len(lats) |->
                         Flatten([j \in 1..Len(lons) |->
                             bloom_cells(lats[i], lons[j], recent_data(field, i, j))])])
             IN  [grid_points |-> Len(bloom_data), data |-> bloom_data]

\* ------------------------------------------- historical anomaly detector
\* n * (current - mean) for the historical days hist
scaled_deviation(current, hist) == Len(hist) * current - SumSeq(hist)

\* n * n * variance of the historical days (population variance, as np.std
\* gives it everywhere else in the repository)
scaled_variance(hist) == Len(hist) * SumSq(hist) - SumSeq(hist) * SumSeq(hist)

z_exceeds_mut(current, hist, k) ==
    scaled_deviation(current, hist) * scaled_deviation(current, hist)
        >= k * k * scaled_variance(hist)

\* |z| > k for z = (current - mean) / std.  With std = 0 the small epsilon
\* added to the denominator makes |z| exceed k exactly when current # mean,
\* which is what the inequality says there too.
z_exceeds(current, hist, k) ==
    scaled_deviation(current, hist) * scaled_deviation(current, hist)
        > k * k * scaled_variance(hist)

interpretation(current, hist) ==
    LET delayed == scaled_deviation(current, hist) > 0
    IN  IF z_exceeds(current, hist, 2)
        THEN IF delayed THEN "significantly_delayed" ELSE "significantly_early"
        ELSE IF z_exceeds(current, hist, 1)
        THEN IF delayed THEN "moderately_delayed" ELSE "moderately_early"
        ELSE "normal"

\* detectAnomaly(currentPeakDayOfYear, historicalDaysOfYear)
detect_anomaly(current, hist) ==
    IF Len(hist) < 2 THEN [error |-> "InsufficientHistoryError"]
    ELSE [anomaly_detected |-> z_exceeds(current, hist, 2),
          interpretation |-> interpretation(current, hist)]

\* ------------------------------------------------------ outlier detector
z_score_exceeds_mut(v, values, threshold) ==
    LET n == Len(values)
        D == n * v - SumSeq(values)
        V == n * SumSq(values) - SumSeq(values) * SumSeq(values)
    IN  Abs(D) * n * threshold.den > threshold.num * V

\* abs((v - mean) / std) > threshold, with mean = sum / n and the
\* population standard deviation std = sqrt(V) / n, compared exactly
z_score_exceeds(v, values, threshold) ==
    LET n == Len(values)
        D == n * v - SumSeq(values)
        V == n * SumSq(values) - SumSeq(values) * SumSeq(values)
    IN  threshold.den * threshold.den * D * D > threshold.num * threshold.num * V

\* utils/helpers.py detect_outliers: the indices (from 0) of the outliers
detect_outliers(values, threshold) ==
    IF Len(values) < 3 THEN <<>>
    ELSE IF Len(values) * SumSq(values) = SumSeq(values) * SumSeq(values) THEN <<>>
    ELSE LET flagged == SelectSeq([i \in 1..Len(values) |-> i],
                            LAMBDA i : z_score_exceeds(values[i], values, threshold))
         IN  [k \in 1..Len(flagged) |-> flagged[k] - 1]

\* ------------------------------------------------ request date ranges
\* datetime.strptime(s, '%Y-%m-%d') raises ValueError on a malformed string
strptime_raises(s) == ~s.valid

\* datetime.strptime(s, '%Y-%m-%d'), for a well-formed string
strptime(s) == s.day

ValueError == [error |-> "ValueError"]

\* start > end
range_inverted(start, end) == start > end

\* utils/helpers.py parse_date_range
parse_date_range(start_str, end_str) ==
    IF strptime_raises(start_str) \/ strptime_raises(end_str) THEN ValueError
    ELSE IF range_inverted(strptime(start_str), strptime(end_str)) THEN ValueError
    ELSE [start |-> strptime(start_str), end |-> strptime(end_str)]

\* the dates generate_mock_ndvi_data samples: start, start + 8, ... <= end
mock_dates(start, end) ==
    IF start > end THEN <<>>
    ELSE [k \in 1..(((end - start) \div 8) + 1) |-> start + 8 * (k - 1)]

\* generate_mock_ndvi_data; ndvi holds the values the seasonal curve and
\* the random noise give the sampled dates
generate_mock_ndvi_data(start_date, end_date, ndvi) ==
    LET dates == mock_dates(strptime(start_date), strptime(end_date))
    IN  [k \in 1..Len(dates) |-> [date |-> dates[k], ndvi |-> ndvi[k]]]

\* the /api/bloom/detect endpoint: the JSON answer and its HTTP status
detect_bloom(req, ndvi) ==
    IF strptime_raises(req.start_date) \/ strptime_raises(req.end_date)
    THEN [status |-> 400, error |-> "ValueError"]
    ELSE LET timeseries == generate_mock_ndvi_data(req.start_date, req.end_date, ndvi)
             event == detect_bloom_from_ndvi(timeseries)
         IN  IF event # None
             THEN [status |-> 200, bloom_detected |-> TRUE,
                   bloom_event |-> event, timeseries |-> timeseries]
             ELSE [status |-> 200, bloom_detected |-> FALSE,
                   message |-> "No significant bloom event detected",
                   timeseries |-> timeseries]

\* ------------------------------------------------------ in-memory store
\* Coordinates are tenths of a degree.  A BloomEvent is [lat, lon, date];
\* a Region is [bounds, bloom_events]; the store is [bloom_events, regions],
\* regions a function from the registered names.

\* Region.__init__
Region(bounds) == [bounds |-> bounds, bloom_events |-> <<>>]

is_in_bounds_mut(bounds, lat, lon) ==
    bounds.min_lat <= lat /\ lat <= bounds.max_lat

\* Region._is_in_bounds
is_in_bounds(bounds, lat, lon) ==
    /\ bounds.min_lat <= lat /\ lat <= bounds.max_lat
    /\ bounds.min_lon <= lon /\ lon <= bounds.max_lon

\* Region.add_bloom_event
region_add_bloom_event(region, event) ==
    IF is_in_bounds(region.bounds, event.lat, event.lon)
    THEN [region EXCEPT !.bloom_events = Append(@, event)]
    ELSE region

WashingtonBounds ==
    [min_lat |-> 388, max_lat |-> 390, min_lon |-> -772, max_lon |-> -769]

TokyoBounds ==
    [min_lat |-> 355, max_lat |-> 358, min_lon |-> 1395, max_lon |-> 1399]

NetherlandsBounds ==
    [min_lat |-> 520, max_lat |-> 525, min_lon |-> 45, max_lon |-> 50]

\* InMemoryStore.__init__ with _initialize_default_regions
InMemoryStore ==
    [bloom_events |-> <<>>,
     regions |-> [k \in {"washington_dc", "japan_tokyo", "netherlands"} |->
                    IF k = "washington_dc" THEN Region(WashingtonBounds)
                    ELSE IF k = "japan_tokyo" THEN Region(TokyoBounds)
                    ELSE Region(NetherlandsBounds)]]

\* InMemoryStore.add_bloom_event
store_add_bloom_event(store, event) ==
    [bloom_events |-> Append(store.bloom_events, event),
     regions |-> [k \in DOMAIN store.regions |->
                    region_add_bloom_event(store.regions[k], event)]]

\* InMemoryStore.add_region: self.regions[region.name] = region
store_add_region(store, name, region) ==
    [store EXCEPT !.regions =
        [k \in DOMAIN store.regions \cup {name} |->
            IF k = name THEN region ELSE store.regions[k]]]

\* InMemoryStore.get_bloom_events(start_date, end_date, region)
get_bloom_events(store, start_date, end_date, region) ==
    LET events == SelectSeq(store.bloom_events,
                            LAMBDA e : start_date <= e.date /\ e.date <= end_date)
    IN  IF region \in DOMAIN store.regions
        THEN SelectSeq(events,
                 LAMBDA e : is_in_bounds(store.regions[region].bounds, e.lat, e.lon))
        ELSE events

\* ------------------------------------------------------------- inputs
Dates == {0, 7, 16, 17, 33, MaxDate}

RawNdvi == {20, 80}

RawSample == [date : Dates, ndvi : {Rat(v, 1) : v \in RawNdvi},
              interpolated : {FALSE}]

RawSeries == UNION {[1..n -> RawSample] : n \in 0..MaxLen}

DetectNdvi == {20, 25, 30, 35, 80}

\* 8-day composites: sample i is dated 8 * (i - 1)
DetectSeries ==
    UNION {{[i \in 1..n |-> [date |-> 8 * (i - 1), ndvi |-> v[i]]] :
              v \in [1..n -> DetectNdvi]} : n \in 0..MaxSeriesLen}

VegData ==
    {[success |-> FALSE, data |-> <<>>]}
        \cup {[success |-> TRUE, data |-> ts] : ts \in DetectSeries}

HistDoy == {1, 90, 100, 101, 110, 114, 366}

HistSeries == UNION {[1..n -> [day_of_year : HistDoy]] : n \in 0..MaxHist}

PhenologyNdvi == {30, 40, 50, 80}

\* 8-day composites of a year, at least one sample
PhenologySeries ==
    UNION {{[i \in 1..n |-> [date |-> 8 * (i - 1), ndvi |-> v[i]]] :
              v \in [1..n -> PhenologyNdvi]} : n \in 1..MaxSeriesLen}

GridRequests ==
    [min_lat : {0, 1}, max_lat : 0..MaxLat, min_lon : {0}, max_lon : 0..MaxLon,
     resolution : {1, 3}, unit : GridUnits]

RecentWindows ==
    {<<60, 60, 60>>, <<50, 60, 71>>, <<30, 30, 30>>, <<20, 30, 41>>, <<10, 20, 30>>}

\* the windows the mock generator's noise produces, by cell parity
NdviFields == [1..2 -> RecentWindows]

\* request dates: 8-day steps over the detector's series lengths, and a
\* string that is no date
DateStrings ==
    {[valid |-> TRUE, day |-> 8 * k] : k \in 0..(MaxSeriesLen - 2)}
        \cup {[valid |-> FALSE, day |-> 0]}

DetectRequests == [start_date : DateStrings, end_date : DateStrings]

MockNdvi == {20, 80}

\* the values the mock generator can draw for the dates of a request
MockDraws(req) ==
    IF req.start_date.valid /\ req.end_date.valid
    THEN [1..Len(mock_dates(req.start_date.day, req.end_date.day)) -> MockNdvi]
    ELSE {<<>>}

CurrentDoy == {96, 97, 100, 102, 103, 104, 105, 150}

AnomalyDoy == {98, 100, 102}

AnomalyExample == <<100, 102, 98, 101, 99>>

AnomalyHistories ==
    UNION {[1..n -> AnomalyDoy] : n \in 0..MaxHist} \cup {AnomalyExample}

EventDates == {0}

\* on the corner of the Washington DC region, and within its latitudes
\* but east of it
EventPoints == {<<390, -769>>, <<389, -760>>}

BloomEvents ==
    {[lat |-> p[1], lon |-> p[2], date |-> d] : p \in EventPoints, d \in EventDates}

\* regions handed to add_region: a new name, or the name of a default one
NewRegionNames == {"potomac", "washington_dc"}

NewRegionBounds ==
    {WashingtonBounds,
     [min_lat |-> 389, max_lat |-> 395, min_lon |-> -765, max_lon |-> -755]}

\* threshold: float = 2.5
DefaultThreshold == Rat(5, 2)

Thresholds == {DefaultThreshold, Rat(2, 1)}

OutlierValues == {0, 1, 100}

ValueLists == UNION {[1..n -> OutlierValues] : n \in 0..MaxValues}

\* ------------------------------------------------------------ the machine
Init ==
    /\ op = "idle"
    /\ input = <<>>
    /\ result = <<>>
    /\ now_year \in NowYears
    /\ data_store = InMemoryStore

Normalize ==
    /\ op = "idle"
    /\ \E ts \in RawSeries :
        /\ op' = "normalize"
        /\ input' = ts
        /\ result' = interpolate_missing_values(ts)
    /\ UNCHANGED <<now_year, data_store>>

\* the normaliser applied to its own result
Renormalize ==
    /\ op = "normalize"
    /\ op' = "renormalize"
    /\ input' = result
    /\ result' = interpolate_missing_values(result)
    /\ UNCHANGED <<now_year, data_store>>

DetectBloom ==
    /\ op = "idle"
    /\ \E ts \in DetectSeries :
        /\ op' = "detect_bloom_from_ndvi"
        /\ input' = ts
        /\ result' = detect_bloom_from_ndvi(ts)
    /\ UNCHANGED <<now_year, data_store>>

DetectBloomReal ==
    /\ op = "idle"
    /\ \E veg_data \in VegData :
        /\ op' = "detect_bloom_real"
        /\ input' = veg_data
        /\ result' = detect_bloom_real(veg_data)
    /\ UNCHANGED <<now_year, data_store>>

PredictBloomWindow ==
    /\ op = "idle"
    /\ \E historical \in HistSeries :
        /\ op' = "predict_bloom_window"
        /\ input' = historical
        /\ result' = predict_bloom_window(historical, now_year)
    /\ UNCHANGED <<now_year, data_store>>

CalculatePhenology ==
    /\ op = "idle"
    /\ \E ts \in PhenologySeries :
        /\ op' = "calculate_phenology"
        /\ input' = ts
        /\ result' = calculate_phenology(ts)
    /\ UNCHANGED <<now_year, data_store>>

GenerateGridPoints ==
    /\ op = "idle"
    /\ \E req \in GridRequests :
        /\ op' = "generate_grid_points"
        /\ input' = req
        /\ result' = generate_grid_points(req)
    /\ UNCHANGED <<now_year, data_store>>

GetBloomMap ==
    /\ op = "idle"
    /\ \E req \in GridRequests, field \in NdviFields :
        /\ op' = "get_bloom_map"
        /\ input' = [request |-> req, field |-> field]
        /\ result' = get_bloom_map(req, field)
    /\ UNCHANGED <<now_year, data_store>>

ParseDateRange ==
    /\ op = "idle"
    /\ \E start_str \in DateStrings, end_str \in DateStrings :
        /\ op' = "parse_date_range"
        /\ input' = [start_date |-> start_str, end_date |-> end_str]
        /\ result' = parse_date_range(start_str, end_str)
    /\ UNCHANGED <<now_year, data_store>>

DetectBloomEndpoint ==
    /\ op = "idle"
    /\ \E req \in DetectRequests :
        \E ndvi \in MockDraws(req) :
            /\ op' = "detect_bloom"
            /\ input' = req
            /\ result' = detect_bloom(req, ndvi)
    /\ UNCHANGED <<now_year, data_store>>

DetectAnomaly ==
    /\ op = "idle"
    /\ \E current \in CurrentDoy, hist \in AnomalyHistories :
        /\ op' = "detect_anomaly"
        /\ input' = [current |-> current, historical |-> hist]
        /\ result' = detect_anomaly(current, hist)
    /\ UNCHANGED <<now_year, data_store>>

\* op is "store" while only InMemoryStore methods have been called, and
\* "region" once a Region of the store has been called directly
StoreAddBloomEvent ==
    /\ op \in {"idle", "store", "region"}
    /\ Len(data_store.bloom_events) < MaxEvents
    /\ \E event \in BloomEvents :
        /\ op' = IF op = "region" THEN "region" ELSE "store"
        /\ input' = [call |-> "InMemoryStore.add_bloom_event", event |-> event]
        /\ result' = None
        /\ data_store' = store_add_bloom_event(data_store, event)
    /\ UNCHANGED now_year

StoreAddRegion ==
    /\ op \in {"idle", "store", "region"}
    /\ \E name \in NewRegionNames, bounds \in NewRegionBounds :
        /\ op' = IF op = "region" THEN "region" ELSE "store"
        /\ input' = [call |-> "InMemoryStore.add_region", name |-> name,
                     bounds |-> bounds]
        /\ result' = None
        /\ data_store' = store_add_region(data_store, name, Region(bounds))
    /\ UNCHANGED now_year

RegionAddBloomEvent ==
    /\ op \in {"idle", "store", "region"}
    /\ \E name \in DOMAIN data_store.regions, event \in BloomEvents :
        /\ Len(data_store.regions[name].bloom_events) < MaxEvents
        /\ op' = "region"
        /\ input' = [call |-> "Region.add_bloom_event", name |-> name,
                     event |-> event]
        /\ result' = None
        /\ data_store' = [data_store EXCEPT !.regions[name] =
                             region_add_bloom_event(@, event)]
    /\ UNCHANGED now_year

DetectOutliers ==
    /\ op = "idle"
    /\ \E values \in ValueLists, threshold \in Thresholds :
        /\ op' = "detect_outliers"
        /\ input' = [values |-> values, threshold |-> threshold]
        /\ result' = detect_outliers(values, threshold)
    /\ UNCHANGED <<now_year, data_store>>

Next ==
    \/ DetectBloom
    \/ DetectBloomReal
    \/ PredictBloomWindow
    \/ CalculatePhenology
    \/ GetBloomMap
    \/ StoreAddBloomEvent
    \/ StoreAddRegion
    \/ RegionAddBloomEvent
    \/ DetectBloomEndpoint
    \/ DetectAnomaly
    \/ DetectOutliers
    \/ ParseDateRange
    \/ GenerateGridPoints
    \/ Normalize
    \/ Renormalize

Spec == Init /\ [][Next]_vars

\* ================================================================ claims
\* the series the detector ran on, and the event it emitted (if any)
DetectorRan == op \in {"detect_bloom_from_ndvi", "detect_bloom_real"}

DetectedSeries == IF op = "detect_bloom_real" THEN input.data ELSE input

HasEvent ==
    /\ DetectorRan
    /\ IF op = "detect_bloom_real"
       THEN "bloom_event" \in DOMAIN result
       ELSE "bloom_onset_date" \in DOMAIN result

Event == IF op = "detect_bloom_real" THEN result.bloom_event ELSE result

\* d[i] = ndvi[i] - ndvi[i-1] for the samples i = 2..n of a series
JumpAt(ts, i) == ts[i].ndvi - ts[i - 1].ndvi

AllJumps(ts) == [k \in 1..(Len(ts) - 1) |-> JumpAt(ts, k + 1)]

\* d exceeds 1.5 population standard deviations of all the differences
Qualifies(ts, i) ==
    LET d == AllJumps(ts)
        n == Len(d)
        mean2 == SumSeq(d) * SumSeq(d)
    IN  /\ JumpAt(ts, i) > 0
        /\ 4 * JumpAt(ts, i) * JumpAt(ts, i) * n * n > 9 * (n * SumSq(d) - mean2)

FirstJump(ts) == SetMin({i \in 2..Len(ts) : Qualifies(ts, i)})

SeriesMax(ts) == CHOOSE m \in {ts[i].ndvi : i \in 1..Len(ts)} :
                    \A i \in 1..Len(ts) : ts[i].ndvi <= m

\* C1: a reported bloom has its onset at the first sample i whose rise
\* d[i] = ndvi[i] - ndvi[i-1] exceeds 1.5 standard deviations, and carries
\* that sample's date and NDVI (the sample at the jump).
C1_OnsetAtJumpSample ==
    HasEvent =>
        LET ts == DetectedSeries
            i == FirstJump(ts)
        IN  /\ Event.bloom_onset_date = ts[i].date
            /\ Event.bloom_onset_ndvi = ts[i].ndvi

StrictlyAscending(ts) ==
    \A i \in 1..(Len(ts) - 1) : ts[i].date < ts[i + 1].date

DistinctDates(ts) ==
    \A i, j \in 1..Len(ts) : i # j => ts[i].date # ts[j].date

FirstOccurrence(ts, d) == ts[SetMin({i \in 1..Len(ts) : ts[i].date = d})]

\* C2: the normaliser's result is strictly ascending by date, no two entries
\* share a date, and of the input samples repeating a date only the first
\* is kept.
C2_SortedNoDuplicates ==
    op = "normalize" =>
        /\ StrictlyAscending(result)
        /\ \A i \in 1..Len(result) :
              ~result[i].interpolated =>
                  result[i] = FirstOccurrence(input, result[i].date)

Interpolated(ts) == SelectSeq(ts, LAMBDA x : x.interpolated)

TwoSampleGap == Abs(input[2].date - input[1].date)

Between(x, a, b) ==
    \/ RatLeq(a, x) /\ RatLeq(x, b)
    \/ RatLeq(b, x) /\ RatLeq(x, a)

\* C3: for two samples more than 16 days apart the normaliser inserts
\* exactly floor(gap/8) - 1 samples, each dated strictly between the two
\* and valued between the two values; for a gap of at most 16 days, none.
C3_TwoSampleInterpolation ==
    (op = "normalize" /\ Len(input) = 2) =>
        LET lo == Min(input[1].date, input[2].date)
            hi == lo + TwoSampleGap
            added == Interpolated(result)
        IN  IF TwoSampleGap > 16
            THEN /\ Len(added) = (TwoSampleGap \div 8) - 1
                 /\ \A k \in 1..Len(added) :
                       /\ lo < added[k].date /\ added[k].date < hi
                       /\ Between(added[k].ndvi, input[1].ndvi, input[2].ndvi)
            ELSE Len(added) = 0

C3_Witness ==
    /\ op = "normalize" /\ Len(input) = 2
    /\ TwoSampleGap = MaxDate
    /\ input[1].ndvi # input[2].ndvi
    /\ Len(Interpolated(result)) = (MaxDate \div 8) - 1

\* C4: normalising the normaliser's own result (of an input with distinct
\* dates) returns it unchanged.
C4_Idempotent ==
    (op = "renormalize" /\ DistinctDates(input)) => result = input

C4_Witness ==
    /\ op = "renormalize" /\ DistinctDates(input)
    /\ Len(Interpolated(input)) >= 2
    /\ \E i \in 1..(Len(input) - 1) : input[i + 1].date - input[i].date > 8

InsufficientDataError == [error |-> "InsufficientDataError"]

\* C5: the normaliser fails with InsufficientDataError on an empty input;
\* it does not return an empty series.
C5_EmptyInputFails ==
    (op = "normalize" /\ input = <<>>) =>
        (result # <<>> /\ result = InsufficientDataError)

Flat(ts) == \A i, j \in 1..Len(ts) : ts[i].ndvi = ts[j].ndvi

\* C6: a flat series, of any length, never yields a bloom event from
\* detect_bloom_from_ndvi.
C6_FlatSeriesNoBloom ==
    (op = "detect_bloom_from_ndvi" /\ Flat(input)) => result = None

C6_Witness ==
    op = "detect_bloom_from_ndvi" /\ Flat(input) /\ Len(input) = MaxSeriesLen

\* C7: an emitted event's peak_ndvi is the maximum NDVI of the whole series
\* and peak_date is a date at which the series attains it, wherever the
\* onset lies.
C7_PeakIsGlobalMaximum ==
    HasEvent =>
        LET ts == DetectedSeries IN
        /\ Event.peak_ndvi = SeriesMax(ts)
        /\ \E i \in 1..Len(ts) :
              ts[i].date = Event.peak_date /\ ts[i].ndvi = SeriesMax(ts)

C7_Witness ==
    HasEvent /\ Event.peak_date < Event.bloom_onset_date

\* C8: an emitted event's confidence is min(10 * d, 1.0) for the difference
\* d that qualified as the onset, and lies in [0, 1].
C8_ConfidenceSaturates ==
    HasEvent =>
        LET d == JumpAt(DetectedSeries, FirstJump(DetectedSeries)) IN
        /\ Event.confidence = (IF 10 * d < NdviScale THEN 10 * d ELSE NdviScale)
        /\ 0 <= Event.confidence /\ Event.confidence <= NdviScale

C8_Witness ==
    /\ HasEvent
    /\ 0 < Event.confidence /\ Event.confidence < NdviScale

ShortSeries == {ts \in DetectSeries : Len(ts) < 3}

\* C9: 'no bloom detected' on a series of at least 3 samples is never the
\* value the detector reports for a series of fewer than 3 samples
\* ('insufficient data'), nor a failure.
C9_NoBloomDistinctFromInsufficient ==
    (DetectorRan /\ Len(DetectedSeries) >= 3 /\ ~HasEvent) =>
        IF op = "detect_bloom_real"
        THEN /\ \A ts \in ShortSeries :
                   result # detect_bloom_real([success |-> TRUE, data |-> ts])
             /\ "error" \notin DOMAIN result
        ELSE \A ts \in ShortSeries : result # detect_bloom_from_ndvi(ts)

\* C10: for at least 2 historical day-of-year values the predicted date's
\* day of the year is the mean of those values rounded to the nearest
\* integer.
C10_PredictedDayIsRoundedMean ==
    (op = "predict_bloom_window" /\ Len(input) >= 2) =>
        LET n == Len(input)
            total == SumSeq([i \in 1..n |-> input[i].day_of_year])
        IN  2 * Abs(n * DayOfYear(result.predicted_date) - total) <= n

Predicted == op = "predict_bloom_window" /\ Len(input) >= 2

HistDays == [i \in 1..Len(input) |-> input[i].day_of_year]

\* n^2 times the population variance of the historical days
ScaledVariance == Len(input) * SumSq(HistDays) - SumSeq(HistDays) * SumSeq(HistDays)

\* C11: confidenceLevel is 'high' exactly when the population standard
\* deviation of the historical days is < 7, 'medium' exactly when it is
\* >= 7 and < 14, and 'low' otherwise.
C11_ConfidenceLevelByStd ==
    Predicted =>
        LET n2 == Len(input) * Len(input) IN
        /\ result.confidence = "high" <=> ScaledVariance < 49 * n2
        /\ result.confidence = "medium" <=>
              (49 * n2 <= ScaledVariance /\ ScaledVariance < 196 * n2)
        /\ result.confidence = "low" <=> 196 * n2 <= ScaledVariance

C11_Witness ==
    /\ Predicted
    /\ ScaledVariance = 49 * Len(input) * Len(input)
    /\ result.confidence = "medium"

\* C12: the window is the predicted date minus and plus the population
\* standard deviation in whole days: window_start = predicted_date -
\* variability_days, window_end = predicted_date + variability_days,
\* variability_days >= 0 and window_start <= predicted_date <= window_end.
C12_WindowAroundPrediction ==
    Predicted =>
        LET v == result.variability_days
            n2 == Len(input) * Len(input)
        IN  /\ v >= 0
            /\ v * v * n2 <= ScaledVariance
            /\ ScaledVariance < (v + 1) * (v + 1) * n2
            /\ result.window_start = result.predicted_date - v
            /\ result.window_end = result.predicted_date + v
            /\ result.window_start <= result.predicted_date
            /\ result.predicted_date <= result.window_end

C12_Witness ==
    /\ Predicted
    /\ result.variability_days > 0
    /\ YearOf(result.window_start) < YearOf(result.predicted_date)

InsufficientHistoryError == [error |-> "InsufficientHistoryError"]

\* C13: with exactly one historical record the prediction fails with
\* InsufficientHistoryError, which is not the null result returned for
\* zero historical records.
C13_OneRecordIsAnError ==
    (op = "predict_bloom_window" /\ Len(input) = 1) =>
        /\ result = InsufficientHistoryError
        /\ result # predict_bloom_window(<<>>, now_year)

\* C14: the prediction depends on its inputs only: invoked at any other
\* wall-clock year it returns the same prediction.
C14_PredictionIgnoresClock ==
    Predicted =>
        \A y \in NowYears : predict_bloom_window(input, y) = result

IndexOfDate(ts, d) == CHOOSE i \in 1..Len(ts) : ts[i].date = d

\* C19: growing_season_length_days is >= 0 for every series of at least one
\* sample: the greenup sample is never after the peak sample and the
\* senescence sample is never before it.
C19_SeasonLengthNonNegative ==
    op = "calculate_phenology" =>
        /\ result.growing_season_length_days >= 0
        /\ result.greenup_date <= result.peak_date
        /\ result.peak_date <= result.senescence_date

C19_Witness ==
    /\ op = "calculate_phenology"
    /\ result.greenup_date < result.peak_date
    /\ result.peak_date < result.senescence_date
    /\ result.senescence_date < input[Len(input)].date
    /\ \E i \in 1..Len(input) :
          input[i].date < result.greenup_date /\ input[i].ndvi < PhenologyThreshold

\* C20: senescence_date is the date of the first sample from the peak
\* sample on whose value is below 0.4, the last date when there is none;
\* peak_date is the date of the global maximum.
C20_SenescenceAfterPeak ==
    op = "calculate_phenology" =>
        LET peak == IndexOfDate(input, result.peak_date)
            sen == IndexOfDate(input, result.senescence_date)
            dropped == \E i \in peak..Len(input) : input[i].ndvi < PhenologyThreshold
        IN  /\ input[peak].ndvi = SeriesMax(input)
            /\ sen >= peak
            /\ \A i \in peak..(sen - 1) : input[i].ndvi >= PhenologyThreshold
            /\ IF dropped THEN input[sen].ndvi < PhenologyThreshold
               ELSE sen = Len(input)

C20_Witness ==
    /\ op = "calculate_phenology"
    /\ \E i \in 1..Len(input) :
          /\ result.peak_date < input[i].date
          /\ input[i].date < result.senescence_date
          /\ input[i].ndvi = PhenologyThreshold
    /\ result.senescence_date < input[Len(input)].date

\* the half-open axis {lo + k * step < hi : k = 0, 1, 2, ...}
HalfOpenAxis(lo, hi, step) ==
    {x \in lo..(hi - 1) : (x - lo) % step = 0}

RequestedPoints(req) ==
    HalfOpenAxis(req.min_lat, req.max_lat, req.resolution)
        \X HalfOpenAxis(req.min_lon, req.max_lon, req.resolution)

Scanned == op = "get_bloom_map"

Answered == Scanned /\ "data" \in DOMAIN result

CellAt(p) == \E k \in 1..Len(result.data) :
                result.data[k].lat = p[1] /\ result.data[k].lon = p[2]

\* C15: the scan returns one cell for every point of the requested grid (all
\* of which have data): no cap limits the latitudes or longitudes scanned.
C15_NoGridCap ==
    Answered =>
        /\ result.grid_points = Len(generate_grid_points(input.request))
        /\ \A k \in 1..Len(generate_grid_points(input.request)) :
              CellAt(generate_grid_points(input.request)[k])

FailingPoints(req) ==
    {p \in RequestedPoints(req) : mock_raises(p[1], req.unit)}

\* C16: when the data of some grid cell cannot be obtained the scan still
\* answers with the cells of the other grid points (here: of those among
\* the first ten rows and columns); it never answers with an error.
C16_FailingCellIsSkipped ==
    (Scanned /\ FailingPoints(input.request) # {}) =>
        /\ "error" \notin DOMAIN result
        /\ \A p \in RequestedPoints(input.request) \ FailingPoints(input.request) :
              (/\ p[1] < input.request.min_lat + GridCap * input.request.resolution
               /\ p[2] < input.request.min_lon + GridCap * input.request.resolution)
                  => CellAt(p)

\* the window behind a returned cell
CellWindow(cell) ==
    recent_data(input.field,
                ((cell.lat - input.request.min_lat) \div input.request.resolution) + 1,
                ((cell.lon - input.request.min_lon) \div input.request.resolution) + 1)

\* C17: a cell whose mean NDVI is > 0.6 is 'blooming', one with
\* 0.3 < mean <= 0.6 is 'vegetated', every other cell is 'dormant'.
C17_CellClassification ==
    Answered =>
        \A k \in 1..Len(result.data) :
            LET total == SumSeq(CellWindow(result.data[k]))
                n == Len(CellWindow(result.data[k]))
                status == result.data[k].status
            IN  /\ status \in {"blooming", "vegetated", "dormant"}
                /\ status = "blooming" <=> total > 60 * n
                /\ status = "vegetated" <=> (30 * n < total /\ total <= 60 * n)
                /\ status = "dormant" <=> total <= 30 * n

C17_Witness ==
    /\ Answered
    /\ \E k \in 1..Len(result.data) :
          /\ SumSeq(CellWindow(result.data[k])) = 60 * Len(CellWindow(result.data[k]))
          /\ result.data[k].status = "vegetated"
    /\ \E k \in 1..Len(result.data) :
          /\ SumSeq(CellWindow(result.data[k])) = 30 * Len(CellWindow(result.data[k]))
          /\ result.data[k].status = "dormant"

\* C18: generate_grid_points returns exactly the points (lat, lon) with
\* lat = min_lat + k * res < max_lat and lon = min_lon + k * res < max_lon,
\* each once: lower bounds included, upper bounds never, and nothing when
\* min >= max on either axis.
C18_HalfOpenGrid ==
    op = "generate_grid_points" =>
        /\ {result[k] : k \in 1..Len(result)} = RequestedPoints(input)
        /\ Len(result) = Cardinality(RequestedPoints(input))
        /\ (input.min_lat >= input.max_lat \/ input.min_lon >= input.max_lon)
              => result = <<>>

InvertedRange ==
    /\ op \in {"detect_bloom", "parse_date_range"}
    /\ input.start_date.valid /\ input.end_date.valid
    /\ input.start_date.day > input.end_date.day

\* C21: a request whose start date is later than its end date is reported
\* as a failure; it is never answered with a normal result such as an
\* empty time series or a 'no bloom detected' response.
C21_InvertedRangeFails ==
    InvertedRange => "error" \in DOMAIN result

AnomalyChecked == op = "detect_anomaly" /\ Len(input.historical) >= 2

\* n * (current - mean) of the checked request
Deviation == Len(input.historical) * input.current - SumSeq(input.historical)

\* |z| > k for the checked request, z = (current - mean) / std
ZBeyond(k) ==
    Deviation * Deviation
        > k * k * (Len(input.historical) * SumSq(input.historical)
                     - SumSeq(input.historical) * SumSeq(input.historical))

RegionNames == DOMAIN data_store.regions

EventsWithinBounds ==
    \A k \in RegionNames :
        \A i \in 1..Len(data_store.regions[k].bloom_events) :
            LET e == data_store.regions[k].bloom_events[i]
                b == data_store.regions[k].bounds
            IN  /\ b.min_lat <= e.lat /\ e.lat <= b.max_lat
                /\ b.min_lon <= e.lon /\ e.lon <= b.max_lon

OutsideRegion(e, k) ==
    LET b == data_store.regions[k].bounds
    IN  \/ e.lat < b.min_lat \/ e.lat > b.max_lat
        \/ e.lon < b.min_lon \/ e.lon > b.max_lon

StoreAddStep == op' \in {"store", "region"}
                  /\ input'.call = "InMemoryStore.add_bloom_event"

\* C23: every event held in a region's bloom_events lies within that
\* region's bounds, inclusive; adding an out-of-bounds event to the store
\* leaves that region's list unchanged while the store's own list grows by
\* one.
C23_RegionHoldsOnlyItsEvents ==
    /\ []EventsWithinBounds
    /\ [][StoreAddStep =>
            /\ Len(data_store'.bloom_events) = Len(data_store.bloom_events) + 1
            /\ \A k \in RegionNames :
                  OutsideRegion(input'.event, k) =>
                      data_store'.regions[k].bloom_events
                          = data_store.regions[k].bloom_events]_vars

\* the store holds an event east of the Washington DC region, which that
\* region's list lacks, after an event on the region's corner which it has
C23_Witness ==
    /\ op = "store"
    /\ input.call = "InMemoryStore.add_bloom_event"
    /\ OutsideRegion(input.event, "washington_dc")
    /\ Len(data_store.bloom_events) = 2
    /\ Len(data_store.regions["washington_dc"].bloom_events) = 1
    /\ data_store.regions["washington_dc"].bloom_events[1].lat
          = data_store.regions["washington_dc"].bounds.max_lat
    /\ data_store.regions["washington_dc"].bloom_events[1].lon
          = data_store.regions["washington_dc"].bounds.max_lon

AllDatesFrom == SetMin(EventDates)

AllDatesTo == CHOOSE d \in EventDates : \A x \in EventDates : x <= d

\* C24: after any interleaving of add_region and add_bloom_event calls on
\* the store, every registered region's bloom_events list is exactly
\* get_bloom_events filtered by that region over all dates.
C24_RegionListsAgreeWithStore ==
    op = "store" =>
        \A k \in RegionNames :
            data_store.regions[k].bloom_events
                = get_bloom_events(data_store, AllDatesFrom, AllDatesTo, k)

\* every step of the series rises by the same amount s
RisesBy(ts, s) == \A i \in 2..Len(ts) : JumpAt(ts, i) = s

NeverRises(ts) == \A i \in 2..Len(ts) : JumpAt(ts, i) <= 0

\* C25: a series of at least 3 samples rising by the same positive amount s
\* at every step is reported as a bloom with onset at the first sample's
\* date and confidence min(10 * s, 1.0); a series that never rises is never
\* reported as a bloom.
C25_SteadyRiseIsABloom ==
    DetectorRan =>
        /\ \A s \in 1..NdviScale :
              (Len(DetectedSeries) >= 3 /\ RisesBy(DetectedSeries, s)) =>
                  /\ HasEvent
                  /\ Event.bloom_onset_date = DetectedSeries[1].date
                  /\ Event.confidence = Min(10 * s, NdviScale)
        /\ NeverRises(DetectedSeries) => ~HasEvent

\* four samples rising by 0.05 each: confidence 0.5, onset at the first
C25_Witness ==
    /\ DetectorRan
    /\ Len(DetectedSeries) = 4
    /\ RisesBy(DetectedSeries, 5)
    /\ HasEvent
    /\ Event.confidence = 50
    /\ Event.bloom_onset_date = DetectedSeries[1].date

DefaultOutlierScan == op = "detect_outliers" /\ input.threshold = DefaultThreshold

AllEqual(v) == \A i, j \in 1..Len(v) : v[i] = v[j]

\* C26: detect_outliers with its default threshold 2.5 returns an empty
\* list for every list of fewer than 8 values, and for every list whose
\* values are all equal.
C26_NoOutliersInShortLists ==
    DefaultOutlierScan =>
        /\ Len(input.values) < 8 => result = <<>>
        /\ AllEqual(input.values) => result = <<>>

\* seven values, six equal and one far away: the largest z-score seven
\* values can have, 6 / sqrt(7)
C26_Witness ==
    /\ DefaultOutlierScan
    /\ Len(input.values) = 7
    /\ \E i \in 1..7 :
          /\ input.values[i] = 100
          /\ \A j \in (1..7) \ {i} : input.values[j] = 0
    /\ result = <<>>

====
